---- MODULE Spec2Model ----
(***************************************************************************)
(* Model of the JSON reviver machinery of bitburner-src:                    *)
(*   isReviverValue, Reviver, constructorsForReviver, Generic_toJSON and    *)
(*   Generic_fromJSON.                                                      *)
(*                                                                          *)
(* JavaScript values are records [t, c, v, p]:                              *)
(*   t  the JSON/JS type ("undefined", "null", "number", "string",          *)
(*      "object"),                                                          *)
(*   c  the class of an object ("Object" for a plain parsed object,         *)
(*      "Array" for an array, the class name for an instance built by a     *)
(*      constructor, "" for a scalar),                                      *)
(*   v  the payload of a scalar, as a string,                               *)
(*   p  the own enumerable properties of an object: a function from         *)
(*      property names to values.                                           *)
(***************************************************************************)
EXTENDS Integers, Sequences, FiniteSets, TLC

VARIABLES
    constructorsForReviver, \* the registry: tag -> class (own properties)
    doc,                    \* the document being parsed, revived in place
    todo,                   \* paths still to be handed to Reviver, bottom-up
    status,                 \* "parsing", "done", "aborted", or a Generic_* phase
    error,                  \* the error that aborted the load ("" if none)
    console,                \* console.warn lines, as the tags warned about
    calls,                  \* fromJSON / migration / validation invocations
    last,                   \* the latest Reviver invocation: input and outcome
    gen,                    \* inputs and outputs of the Generic_* functions
    Settings,               \* the Settings object
    settingsLoad            \* the Settings.load call: its phase, save and the Settings before it

vars == <<constructorsForReviver, doc, todo, status, error, console, calls, last, gen,
          Settings, settingsLoad>>

---------------------------------------------------------------------------
(* Values *)

NoProps == [n \in {} |-> ""]

Undefined == [t |-> "undefined", c |-> "", v |-> "", p |-> NoProps]
Null == [t |-> "null", c |-> "", v |-> "", p |-> NoProps]
Num(s) == [t |-> "number", c |-> "", v |-> s, p |-> NoProps]
Str(s) == [t |-> "string", c |-> "", v |-> s, p |-> NoProps]
Obj(cls, props) == [t |-> "object", c |-> cls, v |-> "", p |-> props]

\* typeof: null is an "object" in JavaScript.
typeof(value) == IF value.t = "null" THEN "object" ELSE value.t

\* `name in value` for an object.
HasProp(value, name) == name \in DOMAIN value.p

\* value[name]: a property the object does not have reads as undefined.
Get(value, name) == IF HasProp(value, name) THEN value.p[name] ELSE Undefined

\* value[name] = val: creates or overwrites the own property.
SetProp(props, name, val) ==
    [n \in (DOMAIN props) \cup {name} |-> IF n = name THEN val ELSE props[n]]

\* {ctor: c, data: d} as parsed from JSON.
Envelope(c, d) == Obj("Object", [n \in {"ctor", "data"} |-> IF n = "ctor" THEN c ELSE d])

\* {f: x} as parsed from JSON.
Single(f, x) == Obj("Object", [n \in {f} |-> x])

---------------------------------------------------------------------------
(* Classes and the registry *)

\* The optional `keys` parameter: absent (undefined), or an array of names.
NoKeys == [given |-> FALSE, list |-> <<>>]
Keys(list) == [given |-> TRUE, list |-> list]

\* A JsonableClass: a constructor whose `new ctor()` yields `defaults`, a
\* static fromJSON (Generic_fromJSON with the class's keys when `generic`,
\* the container's own otherwise), and an optional validationData.
Class(name, generic, keys, defaults, hasValidation, numeric) ==
    [name |-> name, generic |-> generic, keys |-> keys, defaults |-> defaults,
     hasValidation |-> hasValidation, numeric |-> numeric]

NoClass == Class("", FALSE, NoKeys, NoProps, FALSE, {})

JSONSet == Class("JSONSet", FALSE, NoKeys, NoProps, FALSE, {})
JSONMap == Class("JSONMap", FALSE, NoKeys, NoProps, FALSE, {})

\* Registered game classes, one per way of using the generic functions.
Inner == Class("Inner", TRUE, NoKeys, [v |-> Num("0")], FALSE, {})
Outer == Class("Outer", TRUE, Keys(<<"inner", "v">>),
               [inner |-> Null, v |-> Num("0"), cache |-> Str("fresh")], TRUE, {"v"})
\* A class still registered under a tag that also has a legacy case.
Faction == Class("Faction", TRUE, NoKeys, [name |-> Str("")], FALSE, {})

\* export const constructorsForReviver = { JSONSet, JSONMap }, plus the
\* classes that registered themselves before the load.
BaseRegistry == [n \in {"JSONSet", "JSONMap"} |-> IF n = "JSONSet" THEN JSONSet ELSE JSONMap]
Register(reg, cls) == [n \in (DOMAIN reg) \cup {cls.name} |-> IF n = cls.name THEN cls ELSE reg[n]]
GameRegistry == Register(Register(BaseRegistry, Inner), Outer)
Registries == {GameRegistry, Register(GameRegistry, Faction)}

\* Property names every object literal inherits from Object.prototype.
ObjectPrototypeNames == {"constructor", "toString", "valueOf", "hasOwnProperty", "__proto__"}

\* constructorsForReviver[tag]: an own entry, else a member inherited from
\* Object.prototype (truthy, but with no fromJSON), else undefined.
Lookup(tag) ==
    IF tag \in DOMAIN constructorsForReviver
        THEN [kind |-> "class", cls |-> constructorsForReviver[tag]]
    ELSE IF tag \in ObjectPrototypeNames
        THEN [kind |-> "inherited", cls |-> NoClass]
    ELSE [kind |-> "undefined", cls |-> NoClass]

---------------------------------------------------------------------------
(* Outcomes of a call: a returned value or a thrown error, with the console *)
(* lines written and the functions invoked on the way.                      *)

Call(fn, tag, arg) == [fn |-> fn, tag |-> tag, arg |-> arg]

Return(value, warns, cs) ==
    [threw |-> FALSE, error |-> "", ret |-> value, warns |-> warns, calls |-> cs]
Throw(err, warns, cs) ==
    [threw |-> TRUE, error |-> err, ret |-> Undefined, warns |-> warns, calls |-> cs]

---------------------------------------------------------------------------
(* Generic_toJSON and Generic_fromJSON *)

\* A variant that leaves out the listed keys the object does not have.
RECURSIVE CopyListed_SkipsMissing(_, _, _)
CopyListed_SkipsMissing(data, obj, list) ==
    IF list = <<>> THEN data
    ELSE CopyListed_SkipsMissing(
             IF HasProp(obj, Head(list)) THEN SetProp(data, Head(list), obj.p[Head(list)]) ELSE data,
             obj, Tail(list))

\* for (const key of keys) data[key] = obj[key];
RECURSIVE CopyListed(_, _, _)
CopyListed(data, obj, list) ==
    IF list = <<>> THEN data
    ELSE CopyListed(SetProp(data, Head(list), Get(obj, Head(list))), obj, Tail(list))

\* A variant that copies only the entries the target already has.
CopyEntries_KnownOnly(data, obj) ==
    [n \in DOMAIN data |-> IF n \in DOMAIN obj.p THEN obj.p[n] ELSE data[n]]

\* for (const [key, val] of Object.entries(obj)) data[key] = val;
CopyEntries(data, obj) ==
    [n \in (DOMAIN data) \cup (DOMAIN obj.p) |-> IF n \in DOMAIN obj.p THEN obj.p[n] ELSE data[n]]

Generic_toJSON(ctorName, obj, keys) ==
    IF keys.given
        THEN Envelope(Str(ctorName), Obj("Object", CopyListed(NoProps, obj, keys.list)))
        ELSE Envelope(Str(ctorName), Obj("Object", CopyEntries(NoProps, obj)))

\* objectAssert(data): data must be a non-null structured value.
objectAssert(data) == typeof(data) = "object" /\ data.t # "null"

\* A variant that tests `if (val)` instead of `val !== undefined`.
RECURSIVE LoadListed_TruthyOnly(_, _, _)
LoadListed_TruthyOnly(props, data, list) ==
    IF list = <<>> THEN props
    ELSE LET val == Get(data, Head(list)) IN
         LoadListed_TruthyOnly(
             IF val \notin {Undefined, Null} THEN SetProp(props, Head(list), val) ELSE props,
             data, Tail(list))

\* for (const key of keys) { const val = data[key]; if (val !== undefined) obj[key] = val; }
RECURSIVE LoadListed(_, _, _)
LoadListed(props, data, list) ==
    IF list = <<>> THEN props
    ELSE LET val == Get(data, Head(list)) IN
         LoadListed(IF val # Undefined THEN SetProp(props, Head(list), val) ELSE props,
                    data, Tail(list))

\* A variant that fills an empty object instead of `new ctor()`.
Generic_fromJSON_FreshObject(ctor, data, keys) ==
    IF ~objectAssert(data) THEN Throw("TypeAssertionError", <<>>, <<>>)
    ELSE IF keys.given
        THEN Return(Obj(ctor.name, LoadListed(NoProps, data, keys.list)), <<>>, <<>>)
        ELSE Return(Obj(ctor.name, CopyEntries(NoProps, data)), <<>>, <<>>)

Generic_fromJSON(ctor, data, keys) ==
    IF ~objectAssert(data) THEN Throw("TypeAssertionError", <<>>, <<>>)
    ELSE IF keys.given
        THEN Return(Obj(ctor.name, LoadListed(ctor.defaults, data, keys.list)), <<>>, <<>>)
        ELSE Return(Obj(ctor.name, CopyEntries(ctor.defaults, data)), <<>>, <<>>)

\* The static fromJSON of a registered class, given the whole envelope.
fromJSON(cls, value) ==
    IF cls.generic
        THEN Generic_fromJSON(cls, Get(value, "data"), cls.keys)
        ELSE Return(Obj(cls.name, [n \in {"values"} |-> Get(value, "data")]), <<>>, <<>>)

\* validateObject(obj, validationData): every field the schema requires to
\* be numeric must be present and a number.
validateObject(obj, cls) ==
    \A f \in cls.numeric : HasProp(obj, f) /\ obj.p[f].t = "number"

\* loadActionIdentifier(data): the migration of a retired ActionIdentifier,
\* {type, name} of the old object, or null when it has no such shape.
loadActionIdentifier(data) ==
    IF typeof(data) = "object" /\ data.t # "null" /\ HasProp(data, "type") /\ HasProp(data, "name")
        THEN Obj("Object", [n \in {"type", "name"} |-> data.p[n]])
        ELSE Null

---------------------------------------------------------------------------
(* isReviverValue and Reviver *)

\* A variant that does not ask for the data property.
isReviverValue_NoDataCheck(value) ==
    /\ typeof(value) = "object"
    /\ value.t # "null"
    /\ HasProp(value, "ctor")
    /\ typeof(value.p["ctor"]) = "string"

isReviverValue(value) ==
    /\ typeof(value) = "object"
    /\ value.t # "null"
    /\ HasProp(value, "ctor")
    /\ typeof(value.p["ctor"]) = "string"
    /\ HasProp(value, "data")

UnwrapTags == {"AllServersMap", "Industry", "Employee", "Company", "Faction"}
MigrationTags == {"ActionIdentifier"}

\* A variant that returns the envelope instead of its data.
LegacyUnwrap_ReturnsEnvelope(value, tag) == Return(value, <<tag>>, <<>>)

\* case "AllServersMap" ... "Faction": console.warn(...); return value.data;
LegacyUnwrap(value, tag) == Return(value.p["data"], <<tag>>, <<>>)

\* A variant whose case falls through to the unwrap cases.
LegacyMigration_FallsThrough(value, tag) == Return(value.p["data"], <<tag>>, <<>>)

\* case "ActionIdentifier": return loadActionIdentifier(value.data);
LegacyMigration(value, tag) ==
    Return(loadActionIdentifier(value.p["data"]), <<>>,
           <<Call("loadActionIdentifier", tag, value.p["data"])>>)

\* A variant that lets a node with an unknown tag through unrevived.
MissingConstructor_PassesThrough(value, tag) == Return(value, <<>>, <<>>)

\* throw new Error(`Could not locate constructor named ${value.ctor}. ...`)
MissingConstructor(value, tag) == Throw("UnknownConstructor", <<>>, <<>>)

\* A variant that returns the instance without validating it.
Construct_SkipsValidation(cls, value, tag) ==
    LET r == fromJSON(cls, value)
        c1 == <<Call("fromJSON", tag, value)>>
    IN  IF r.threw THEN Throw(r.error, <<>>, c1) ELSE Return(r.ret, <<>>, c1)

\* const obj = ctor.fromJSON(value); validateObject if the class declares
\* validationData; return obj.
Construct(cls, value, tag) ==
    LET r == fromJSON(cls, value)
        c1 == <<Call("fromJSON", tag, value)>>
    IN  IF r.threw THEN Throw(r.error, <<>>, c1)
        ELSE IF cls.hasValidation
            THEN LET c2 == c1 \o <<Call("validateObject", tag, r.ret)>>
                 IN  IF validateObject(r.ret, cls)
                         THEN Return(r.ret, <<>>, c2)
                         ELSE Throw("ValidationError", <<>>, c2)
        ELSE Return(r.ret, <<>>, c1)

Reviver(key, value) ==
    IF ~isReviverValue(value) THEN Return(value, <<>>, <<>>)
    ELSE LET tag == value.p["ctor"].v
             ctor == Lookup(tag)
         IN  IF ctor.kind = "undefined"
                 THEN IF tag \in UnwrapTags THEN LegacyUnwrap(value, tag)
                      ELSE IF tag \in MigrationTags THEN LegacyMigration(value, tag)
                      ELSE MissingConstructor(value, tag)
             \* An inherited member has no fromJSON: ctor.fromJSON(value) is a TypeError.
             ELSE IF ctor.kind = "inherited" THEN Throw("TypeError", <<>>, <<>>)
             ELSE Construct(ctor.cls, value, tag)

---------------------------------------------------------------------------
(* The load: JSON.parse(saveString, Reviver) hands every node of the parsed *)
(* document to Reviver, children before their parent, and stores what it    *)
(* returns in place of the node.                                            *)

\* The property names of the documents, in the order they are written.
KeyOrder == <<"ctor", "data", "inner", "v", "type", "name", "0">>

RECURSIVE KeysFrom(_, _)
KeysFrom(value, i) ==
    IF i > Len(KeyOrder) THEN <<>>
    ELSE (IF HasProp(value, KeyOrder[i]) THEN <<KeyOrder[i]>> ELSE <<>>) \o KeysFrom(value, i + 1)

\* Object.keys(value)
Keys_(value) == KeysFrom(value, 1)

RECURSIVE PostOrder(_, _)
RECURSIVE PostOrderOf(_, _, _)
\* The paths of the node at `path` and everything below it, bottom-up.
PostOrder(value, path) ==
    IF value.t = "object" THEN PostOrderOf(value, path, Keys_(value)) \o <<path>>
    ELSE <<path>>
PostOrderOf(value, path, ks) ==
    IF ks = <<>> THEN <<>>
    ELSE PostOrder(value.p[Head(ks)], path \o <<Head(ks)>>) \o PostOrderOf(value, path, Tail(ks))

RECURSIVE GetAt(_, _)
GetAt(value, path) ==
    IF path = <<>> THEN value ELSE GetAt(value.p[Head(path)], Tail(path))

RECURSIVE SetAt(_, _, _)
\* holder[name] = newElement, or delete holder[name] when it is undefined.
SetAt(value, path, new) ==
    IF path = <<>> THEN new
    ELSE IF Len(path) = 1 /\ new = Undefined
        THEN [value EXCEPT !.p = [n \in (DOMAIN value.p) \ {Head(path)} |-> value.p[n]]]
    ELSE [value EXCEPT !.p[Head(path)] = SetAt(value.p[Head(path)], Tail(path), new)]

\* The key Reviver is called with: the property name, "" for the root.
KeyOf(path) == IF path = <<>> THEN "" ELSE path[Len(path)]

---------------------------------------------------------------------------
(* The documents a save may hold *)

MaxDepth == 2

Tags == {"JSONSet", "Inner", "Outer",
         "AllServersMap", "Industry", "Employee", "Company", "Faction",
         "ActionIdentifier", "NotARealType", "toString", ""}

CtorValues == {Str(tg) : tg \in Tags} \cup {Num("1")}
NestTags == {"Inner", "Outer", "Employee", "ActionIdentifier", "NotARealType"}

Payloads == {Null, Num("1"), Str("not-a-number"),
             Single("v", Num("1")), Single("v", Str("not-a-number")),
             Obj("Object", [n \in {"type", "name"} |-> Str(n)]),
             Obj("Array", [n \in {"0"} |-> Num("1")])}

Malformed == {Single("ctor", Str("Inner")), Single("data", Num("1"))}

RECURSIVE Docs(_)
Docs(d) ==
    IF d = 0 THEN Payloads
    ELSE LET below == Docs(d - 1) IN
         IF d = 1
             THEN below \cup Malformed \cup {Envelope(c, x) : c \in CtorValues, x \in below}
             ELSE below \cup {Envelope(Str(tg), x) : tg \in NestTags, x \in below}
                        \cup {Envelope(Str(tg), Single("inner", x)) : tg \in NestTags, x \in below}

NoCall == [called |-> FALSE, key |-> "", value |-> Undefined, out |-> Return(Undefined, <<>>, <<>>)]
NoGen == [op |-> "none"]

---------------------------------------------------------------------------
(* Settings and Settings.load *)

\* The keys of the nested settings objects. overview's are those of the
\* source; the themes and styles come from modules outside it and stand
\* here with two keys each.
NestedNames == {"theme", "styles", "overview", "EditorTheme"}
NestedKeys(name) ==
    IF name = "overview" THEN {"x", "y", "opened"}
    ELSE IF name = "theme" THEN {"primary", "secondary"}
    ELSE IF name = "styles" THEN {"fontFamily", "lineHeight"}
    ELSE {"base", "inherit"}

\* A nested settings object holding `val` under each of `ks`.
Nested(ks, val) == Obj("Object", [k \in ks |-> val])

\* export const Settings = { ..., RemoteFileApiAddress: "localhost",
\* RemoteFileApiPort: 0, theme, styles, overview, EditorTheme, ... }
DefaultSettings ==
    Obj("Object",
        [n \in NestedNames \cup {"AutosaveInterval", "RemoteFileApiAddress", "RemoteFileApiPort"} |->
            IF n \in NestedNames THEN Nested(NestedKeys(n), Str("default"))
            ELSE IF n = "AutosaveInterval" THEN Num("60")
            ELSE IF n = "RemoteFileApiAddress" THEN Str("localhost")
            ELSE Num("0")])

\* Settings the player has changed before the load.
CustomSettings ==
    Obj("Object",
        [n \in DOMAIN DefaultSettings.p |->
            IF n \in NestedNames THEN Nested(NestedKeys(n), Str("custom"))
            ELSE IF n = "AutosaveInterval" THEN Num("60")
            ELSE IF n = "RemoteFileApiAddress" THEN Str("a.com")
            ELSE Num("1")])

\* hostname.startsWith("http://") || hostname.startsWith("https://")
StartsWithHttpScheme(s) == s \in {"http://a.com", "https://a.com"}

\* new URL(`http://${hostname}`): whether it parses, and its port, pathname
\* and search. The default port of http is dropped from the parsed URL.
ParseURL(s) ==
    CASE s \in {"localhost", "a.com"} -> [ok |-> TRUE, port |-> "", pathname |-> "/", search |-> ""]
      [] s = "a.com:80" -> [ok |-> TRUE, port |-> "", pathname |-> "/", search |-> ""]
      [] s = "a.com:8080" -> [ok |-> TRUE, port |-> "8080", pathname |-> "/", search |-> ""]
      [] s = "a.com/path" -> [ok |-> TRUE, port |-> "", pathname |-> "/path", search |-> ""]
      [] s = "a.com?q=1" -> [ok |-> TRUE, port |-> "", pathname |-> "/", search |-> "?q=1"]
      [] OTHER -> [ok |-> FALSE, port |-> "", pathname |-> "", search |-> ""]

\* A value that is not a string has no startsWith: the TypeError is caught
\* by the try block like the URL's, and the answer is false.
isValidConnectionHostname(hostname) ==
    IF hostname.t # "string" THEN FALSE
    ELSE IF StartsWithHttpScheme(hostname.v) THEN FALSE
    ELSE LET url == ParseURL(hostname.v) IN
         IF ~url.ok THEN FALSE
         ELSE IF url.port # "" \/ url.pathname # "/" \/ url.search # "" THEN FALSE
         ELSE TRUE

MaxPort == 65535

\* The numbers the saves hold.
NumberOf(s) ==
    CASE s = "-1" -> -1 [] s = "0" -> 0 [] s = "1" -> 1 [] s = "60" -> 60
      [] s = "65535" -> 65535 [] s = "65536" -> 65536

\* Number.isFinite(port) && port > 0 && port <= 65535
isValidConnectionPort(port) ==
    /\ port.t = "number"
    /\ port.v \notin {"Infinity", "NaN"}
    /\ NumberOf(port.v) > 0
    /\ NumberOf(port.v) <= MaxPort

\* The truthiness of a value, as `save.theme && ...` tests it.
Truthy(value) ==
    \/ value.t = "object"
    \/ value.t = "number" /\ value.v \notin {"0", "NaN"}
    \/ value.t = "string" /\ value.v # ""

\* Object.assign(target, source) for a source that is an object, null or
\* undefined: the source's own properties are copied onto the target.
ObjectAssign(target, source) ==
    IF source.t = "object" THEN [target EXCEPT !.p = CopyEntries(target.p, source)] ELSE target

\* save.X && Object.assign(Settings.X, save.X)
MergeNested(settings, save, name) ==
    IF Truthy(Get(save, name))
        THEN ObjectAssign(Get(settings, name), Get(save, name))
        ELSE Get(settings, name)

\* delete obj[name]
Delete(obj, name) == [obj EXCEPT !.p = [n \in (DOMAIN obj.p) \ {name} |-> obj.p[n]]]

\* delete save.theme, save.styles, save.overview, save.EditorTheme;
\* a comma expression: the delete applies to save.theme, and the other three
\* operands are only read.
DeleteNested(save) == Delete(save, "theme")

\* The body of Settings.load once the save string is parsed.
load(settings, save) ==
    LET merged == [settings EXCEPT !.p =
                      [n \in DOMAIN settings.p |->
                          IF n \in NestedNames THEN MergeNested(settings, save, n)
                          ELSE settings.p[n]]]
        assigned == ObjectAssign(merged, DeleteNested(save))
        hosted == IF ~isValidConnectionHostname(Get(assigned, "RemoteFileApiAddress"))
                      THEN [assigned EXCEPT !.p = SetProp(assigned.p, "RemoteFileApiAddress", Str("localhost"))]
                      ELSE assigned
    IN  IF ~isValidConnectionPort(Get(hosted, "RemoteFileApiPort"))
            THEN [hosted EXCEPT !.p = SetProp(hosted.p, "RemoteFileApiPort", Num("0"))]
            ELSE hosted

\* What a save may hold under a nested name: nothing, null, or an object
\* with some of the keys.
SavedNested(name) ==
    {Undefined, Null} \cup {Nested(ks, Str("saved")) : ks \in SUBSET NestedKeys(name)}

SavedAddresses ==
    {Undefined, Num("1"), Str(""), Str("a.com"), Str("a.com:80"), Str("a.com:8080"),
     Str("http://a.com"), Str("a.com/path")}
SavedPorts ==
    {Undefined, Str("8080"), Num("-1"), Num("0"), Num("1"), Num("65535"), Num("65536"),
     Num("Infinity")}

\* A parsed save with the given values; a name whose value is undefined is
\* not in the save.
SaveOf(vals) ==
    Obj("Object", [n \in {m \in DOMAIN vals : vals[m] # Undefined} |-> vals[n]])

Saves ==
    {SaveOf([theme |-> th, styles |-> st, overview |-> ov, EditorTheme |-> et,
             RemoteFileApiAddress |-> ad, RemoteFileApiPort |-> po]) :
        th \in SavedNested("theme"), st \in SavedNested("styles"),
        ov \in SavedNested("overview"), et \in SavedNested("EditorTheme"),
        ad \in SavedAddresses, po \in SavedPorts}

NoLoad == [phase |-> "none", save |-> Undefined, before |-> Undefined]

---------------------------------------------------------------------------
(* The load as a state machine *)

Init ==
    /\ constructorsForReviver \in Registries
    /\ doc \in Docs(MaxDepth)
    /\ todo = PostOrder(doc, <<>>)
    /\ status = "parsing"
    /\ error = ""
    /\ console = <<>>
    /\ calls = <<>>
    /\ last = NoCall
    /\ gen = NoGen
    /\ Settings = DefaultSettings
    /\ settingsLoad = NoLoad

\* Reviver returns: its value replaces the node.
ReviveNode ==
    /\ status = "parsing"
    /\ todo # <<>>
    /\ LET path == Head(todo)
           value == GetAt(doc, path)
           out == Reviver(KeyOf(path), value)
       IN  /\ ~out.threw
           /\ doc' = SetAt(doc, path, out.ret)
           /\ todo' = Tail(todo)
           /\ status' = IF Tail(todo) = <<>> THEN "done" ELSE "parsing"
           /\ console' = console \o out.warns
           /\ calls' = calls \o out.calls
           /\ last' = [called |-> TRUE, key |-> KeyOf(path), value |-> value, out |-> out]
    /\ UNCHANGED <<constructorsForReviver, error, gen, Settings, settingsLoad>>

\* Reviver throws: the error reaches JSON.parse's caller and the load ends.
AbortLoad ==
    /\ status = "parsing"
    /\ todo # <<>>
    /\ LET path == Head(todo)
           value == GetAt(doc, path)
           out == Reviver(KeyOf(path), value)
       IN  /\ out.threw
           /\ status' = "aborted"
           /\ error' = out.error
           /\ console' = console \o out.warns
           /\ calls' = calls \o out.calls
           /\ last' = [called |-> TRUE, key |-> KeyOf(path), value |-> value, out |-> out]
    /\ UNCHANGED <<constructorsForReviver, doc, todo, gen, Settings, settingsLoad>>

Next == ReviveNode \/ AbortLoad

Spec == Init /\ [][Next]_vars

---------------------------------------------------------------------------
(* The generic functions on their own: a class, an object, and each of     *)
(* Generic_toJSON, Generic_fromJSON and the round trip through Reviver.     *)

MaxFields == 4

\* Field names are ordinary data property names (none that Object.prototype
\* defines): a and b are set by the constructor, c is optional, the rest are
\* unknown to the class.
FieldOrder == <<"a", "b", "c", "d", "e", "f">>
FieldNames == {FieldOrder[i] : i \in 1..MaxFields}
FieldValues == {Undefined, Null, Num("1"), Str("s")}

\* Every object over the field names: each name absent, or present with a value.
FieldMaps == UNION {[S -> FieldValues] : S \in SUBSET FieldNames}

\* A class whose constructor sets a and b, saved and loaded with the generic
\* functions: with every field or with the allow-list [a, c], and with or
\* without validationData requiring a to be numeric.
WidgetDefaults == [a |-> Num("0"), b |-> Str("d")]
Widgets ==
    {Class("Widget", TRUE, ks, WidgetDefaults, hv, IF hv THEN {"a"} ELSE {}) :
        ks \in {NoKeys, Keys(<<"a", "c">>)}, hv \in BOOLEAN}

\* The class's toJSON: Generic_toJSON with the class's tag and allow-list.
toJSON(cls, obj) == Generic_toJSON(cls.name, obj, cls.keys)

InitGeneric ==
    /\ \E cls \in Widgets, fields \in FieldMaps :
        /\ constructorsForReviver = Register(GameRegistry, cls)
        /\ gen = [op |-> "input", cls |-> cls,
                  x |-> Obj(cls.name, fields), data |-> Obj("Object", fields),
                  env |-> Undefined, out |-> Return(Undefined, <<>>, <<>>)]
    /\ doc = Undefined
    /\ todo = <<>>
    /\ status = "generic"
    /\ error = ""
    /\ console = <<>>
    /\ calls = <<>>
    /\ last = NoCall
    /\ Settings = DefaultSettings
    /\ settingsLoad = NoLoad

\* Generic_toJSON(tag, x, keys)
Serialize ==
    /\ gen.op = "input"
    /\ gen' = [gen EXCEPT !.op = "toJSON", !.env = toJSON(gen.cls, gen.x)]
    /\ UNCHANGED <<constructorsForReviver, doc, todo, status, error, console, calls, last,
                   Settings, settingsLoad>>

\* Generic_fromJSON(ctor, data, keys)
Deserialize ==
    /\ gen.op = "input"
    /\ gen' = [gen EXCEPT !.op = "fromJSON",
                          !.out = Generic_fromJSON(gen.cls, gen.data, gen.cls.keys)]
    /\ UNCHANGED <<constructorsForReviver, doc, todo, status, error, console, calls, last,
                   Settings, settingsLoad>>

\* Reviver("", x.toJSON())
RoundTrip ==
    /\ gen.op = "input"
    /\ LET env == toJSON(gen.cls, gen.x)
           out == Reviver("", env)
       IN  /\ gen' = [gen EXCEPT !.op = "roundTrip", !.env = env, !.out = out]
           /\ calls' = calls \o out.calls
           /\ console' = console \o out.warns
           /\ last' = [called |-> TRUE, key |-> "", value |-> env, out |-> out]
    /\ UNCHANGED <<constructorsForReviver, doc, todo, status, error, Settings, settingsLoad>>

NextGeneric == Serialize \/ Deserialize \/ RoundTrip

SpecGeneric == InitGeneric /\ [][NextGeneric]_vars

---------------------------------------------------------------------------
(* Settings.load as a state machine: one call on a parsed save string.     *)

InitSettings ==
    /\ Settings \in {DefaultSettings, CustomSettings}
    /\ \E sv \in Saves \cup {Null} :
           settingsLoad = [phase |-> "ready", save |-> sv, before |-> Settings]
    /\ constructorsForReviver = BaseRegistry
    /\ doc = Undefined
    /\ todo = <<>>
    /\ status = "settings"
    /\ error = ""
    /\ console = <<>>
    /\ calls = <<>>
    /\ last = NoCall
    /\ gen = NoGen

\* Settings.load(saveString) for a save that parses to an object.
LoadSettings ==
    /\ settingsLoad.phase = "ready"
    /\ settingsLoad.save.t = "object"
    /\ Settings' = load(Settings, settingsLoad.save)
    /\ settingsLoad' = [settingsLoad EXCEPT !.phase = "loaded"]
    /\ UNCHANGED <<constructorsForReviver, doc, todo, status, error, console, calls, last, gen>>

\* Settings.load("null"): reading save.theme is a TypeError and Settings is
\* left as it was.
LoadSettingsThrows ==
    /\ settingsLoad.phase = "ready"
    /\ settingsLoad.save.t # "object"
    /\ settingsLoad' = [settingsLoad EXCEPT !.phase = "threw"]
    /\ error' = "TypeError"
    /\ UNCHANGED <<constructorsForReviver, doc, todo, status, console, calls, last, gen, Settings>>

NextSettings == LoadSettings \/ LoadSettingsThrows

SpecSettings == InitSettings /\ [][NextSettings]_vars

---------------------------------------------------------------------------
(* Properties of Reviver, stated on its latest invocation *)

\* The node Reviver was last called on is envelope-shaped: an object with a
\* string ctor and a data property.
LastIsEnvelope ==
    /\ last.called
    /\ last.value.t = "object"
    /\ "ctor" \in DOMAIN last.value.p
    /\ "data" \in DOMAIN last.value.p
    /\ last.value.p["ctor"].t = "string"

LastTag == last.value.p["ctor"].v
LastData == last.value.p["data"]
Registered(tag) == tag \in DOMAIN constructorsForReviver
CallsOf(cs, fn) == {i \in DOMAIN cs : cs[i].fn = fn}

\* C1: an envelope whose tag was never inserted into constructorsForReviver
\* and is not a legacy tag makes Reviver raise the Unknown-Constructor error,
\* return nothing and invoke no fromJSON, and the load aborts.
C1_UnknownTagRaisesUnknownConstructor ==
    (LastIsEnvelope /\ ~Registered(LastTag) /\ LastTag \notin UnwrapTags \cup MigrationTags)
        => /\ last.out.threw
           /\ last.out.error = "UnknownConstructor"
           /\ last.out.calls = <<>>
           /\ status = "aborted"

\* C2: an envelope with an unregistered unwrap-type legacy tag makes Reviver
\* return the envelope's data verbatim, warn exactly once and construct
\* nothing (no fromJSON, no validation).
C2_LegacyUnwrapReturnsData ==
    (LastIsEnvelope /\ ~Registered(LastTag) /\ LastTag \in UnwrapTags)
        => /\ ~last.out.threw
           /\ last.out.ret = LastData
           /\ last.out.warns = <<LastTag>>
           /\ last.out.calls = <<>>

C2_Witness ==
    /\ LastIsEnvelope /\ ~Registered(LastTag) /\ LastTag = "Employee"
    /\ LastData = Single("v", Num("1"))
    /\ last.out.ret = Single("v", Num("1"))
    /\ console = <<"Employee">>

\* C3 as claimed: resolving ActionIdentifier through the legacy switch logs a
\* warning and returns the migration function's output, so that every legacy
\* resolution comes with a warning.
C3_MigrationWarns ==
    (LastIsEnvelope /\ ~Registered(LastTag) /\ LastTag \in UnwrapTags \cup MigrationTags)
        => /\ ~last.out.threw
           /\ Len(last.out.warns) >= 1
           /\ (LastTag \in MigrationTags => last.out.ret = loadActionIdentifier(LastData))

\* C3 amended: resolving ActionIdentifier returns the output of
\* loadActionIdentifier on the envelope's data, invoked once, and Reviver
\* writes no warning for it; only the unwrap entries are warned about.
C3_MigrationReturnsOutputSilently ==
    (LastIsEnvelope /\ ~Registered(LastTag) /\ LastTag \in MigrationTags)
        => /\ ~last.out.threw
           /\ last.out.ret = loadActionIdentifier(LastData)
           /\ last.out.calls = <<Call("loadActionIdentifier", LastTag, LastData)>>
           /\ last.out.warns = <<>>

C3_Witness ==
    /\ LastIsEnvelope /\ ~Registered(LastTag) /\ LastTag = "ActionIdentifier"
    /\ LastData.t = "object" /\ DOMAIN LastData.p = {"type", "name"}
    /\ last.out.ret = LastData
    /\ console = <<>>

\* A well-formed envelope in the words of the specification: an object whose
\* ctor is a non-empty string and whose data is present.
LastIsWellFormed == LastIsEnvelope /\ LastTag # ""

LastPassedThrough ==
    /\ ~last.out.threw
    /\ last.out.ret = last.value
    /\ last.out.warns = <<>>
    /\ last.out.calls = <<>>

\* C4 as claimed: every node that is not a well-formed envelope (scalars,
\* null, arrays, objects missing ctor or data, a non-string ctor, an empty
\* ctor) is returned unchanged, without an error and without a lookup.
C4_NotWellFormedPassesThrough ==
    (last.called /\ ~LastIsWellFormed) => LastPassedThrough

\* C4 amended: every node that is not an object with a string ctor and a
\* data property is returned unchanged; an object with the empty string as
\* ctor and a data property is an envelope, is looked up and raises the
\* Unknown-Constructor error.
C4_NotEnvelopePassesThrough ==
    /\ (last.called /\ ~LastIsEnvelope) => LastPassedThrough
    /\ (LastIsEnvelope /\ LastTag = "")
           => (last.out.threw /\ last.out.error = "UnknownConstructor" /\ status = "aborted")

C4_Witness ==
    /\ last.called /\ ~LastIsEnvelope
    /\ last.value = Single("ctor", Str("Inner"))
    /\ last.out.ret = last.value
    /\ status = "done"

\* C5: an envelope with a registered tag has that class's fromJSON invoked
\* exactly once, with the whole envelope; a class with validationData has the
\* instance validated before it is returned and a failed validation raises
\* an error instead; otherwise the instance fromJSON produced is returned.
\* A registered tag is never handled as a legacy tag.
C5_RegisteredTagConstructs ==
    (LastIsEnvelope /\ Registered(LastTag))
        => LET cls == constructorsForReviver[LastTag]
               made == fromJSON(cls, last.value)
               cs == last.out.calls
           IN  /\ Cardinality(CallsOf(cs, "fromJSON")) = 1
               /\ cs[1] = Call("fromJSON", LastTag, last.value)
               /\ CallsOf(cs, "loadActionIdentifier") = {}
               /\ last.out.warns = <<>>
               /\ made.threw => last.out.threw
               /\ (~made.threw /\ cls.hasValidation)
                      => /\ cs = <<cs[1], Call("validateObject", LastTag, made.ret)>>
                         /\ IF \A f \in cls.numeric : f \in DOMAIN made.ret.p /\ made.ret.p[f].t = "number"
                                THEN ~last.out.threw /\ last.out.ret = made.ret
                                ELSE last.out.threw /\ last.out.error = "ValidationError"
               /\ (~made.threw /\ ~cls.hasValidation)
                      => /\ cs = <<cs[1]>>
                         /\ ~last.out.threw /\ last.out.ret = made.ret

C5_Witness ==
    /\ LastIsEnvelope /\ Registered(LastTag) /\ LastTag = "Outer"
    /\ LastData = Single("v", Str("not-a-number"))
    /\ status = "aborted" /\ error = "ValidationError"
    /\ Len(calls) = 2

\* A raw, unresolved envelope: a plain parsed object with a string ctor and
\* a data property.
IsRawEnvelope(value) ==
    /\ value.t = "object" /\ value.c = "Object"
    /\ "ctor" \in DOMAIN value.p /\ "data" \in DOMAIN value.p
    /\ value.p["ctor"].t = "string"

RECURSIVE ContainsRawEnvelope(_)
ContainsRawEnvelope(value) ==
    \/ IsRawEnvelope(value)
    \/ \E n \in DOMAIN value.p : ContainsRawEnvelope(value.p[n])

\* C6: under the bottom-up load, whenever a class's fromJSON or the legacy
\* migration function runs for a node, no raw envelope is left anywhere
\* inside that node's data: each nested envelope has been replaced by its
\* instance or its legacy fallback value.
C6_NestedEnvelopesAlreadyRevived ==
    \A i \in DOMAIN calls :
        /\ calls[i].fn = "fromJSON" => ~ContainsRawEnvelope(calls[i].arg.p["data"])
        /\ calls[i].fn = "loadActionIdentifier" => ~ContainsRawEnvelope(calls[i].arg)

\* Inner.fromJSON ran before Outer.fromJSON, which saw data.inner as a live
\* Inner instance.
C6_Witness ==
    /\ Len(calls) = 3
    /\ calls[1] = Call("fromJSON", "Inner", Envelope(Str("Inner"), Single("v", Num("1"))))
    /\ calls[2].fn = "fromJSON" /\ calls[2].tag = "Outer"
    /\ Get(Get(calls[2].arg, "data"), "inner") = Obj("Inner", [v |-> Num("1")])
    /\ calls[3].fn = "validateObject"
    /\ status = "done"
    /\ doc.c = "Outer" /\ Get(doc, "inner").c = "Inner"

---------------------------------------------------------------------------
(* Properties of the generic functions *)

Listed(keys) == {keys.list[i] : i \in DOMAIN keys.list}

\* An instance of the class: it has every field the constructor sets and
\* passes the class's validation.
ValidInstance(cls, x) ==
    /\ DOMAIN cls.defaults \subseteq DOMAIN x.p
    /\ cls.hasValidation => \A f \in cls.numeric : x.p[f].t = "number"

\* C7 as claimed: reviving the envelope that serializing a valid instance x
\* produced yields an instance field-wise equal to x.
C7_RoundTripFieldwiseEqual ==
    (gen.op = "roundTrip" /\ ValidInstance(gen.cls, gen.x))
        => /\ ~gen.out.threw
           /\ gen.out.ret.c = gen.cls.name
           /\ gen.out.ret.p = gen.x.p

\* C7 amended: with no allow-list the revived instance is field-wise equal
\* to x; with an allow-list it equals x on the listed fields that x holds
\* with a value other than undefined, and every other field has the value
\* the constructor gives it (or is absent if the constructor sets none).
C7_RoundTripOnSavedFields ==
    (gen.op = "roundTrip" /\ ValidInstance(gen.cls, gen.x))
        => LET cls == gen.cls
               x == gen.x.p
               r == gen.out.ret.p
           IN  /\ ~gen.out.threw
               /\ gen.out.ret.c = cls.name
               /\ ~cls.keys.given => r = x
               /\ cls.keys.given =>
                      \A f \in FieldNames \cup DOMAIN r :
                          IF f \in Listed(cls.keys) /\ f \in DOMAIN x /\ x[f] # Undefined
                              THEN f \in DOMAIN r /\ r[f] = x[f]
                          ELSE IF f \in DOMAIN cls.defaults
                              THEN f \in DOMAIN r /\ r[f] = cls.defaults[f]
                          ELSE f \notin DOMAIN r

C7_Witness ==
    /\ gen.op = "roundTrip" /\ ValidInstance(gen.cls, gen.x)
    /\ gen.cls.keys.given
    /\ gen.x.p = [a |-> Num("1"), b |-> Str("s")]
    /\ gen.out.ret.p = [a |-> Num("1"), b |-> Str("d")]

EnvelopeOf(cls, env) ==
    /\ env.t = "object" /\ env.c = "Object"
    /\ DOMAIN env.p = {"ctor", "data"}
    /\ env.p["ctor"] = Str(cls.name)
    /\ env.p["data"].t = "object" /\ env.p["data"].c = "Object"

\* C8 as claimed: the envelope has ctor = tag and a fresh data object; with
\* an allow-list data holds no field outside it, each listed field x has
\* with x's value, and no key for a listed field x does not have; with no
\* allow-list data holds exactly x's own fields.
C8_ToJSONOmitsMissing ==
    gen.op = "toJSON"
        => LET x == gen.x.p
               ks == gen.cls.keys
               data == gen.env.p["data"].p
           IN  /\ EnvelopeOf(gen.cls, gen.env)
               /\ ks.given => /\ DOMAIN data = Listed(ks) \cap DOMAIN x
                              /\ \A f \in DOMAIN data : data[f] = x[f]
               /\ ~ks.given => /\ DOMAIN data = DOMAIN x
                               /\ \A f \in DOMAIN data : data[f] = x[f]

\* C8 amended: with an allow-list the keys of data are exactly the listed
\* keys; a listed field x has carries x's value and a listed field x does
\* not have is present with the value undefined.
C8_ToJSONKeysExactlyListed ==
    gen.op = "toJSON"
        => LET x == gen.x.p
               ks == gen.cls.keys
               data == gen.env.p["data"].p
           IN  /\ EnvelopeOf(gen.cls, gen.env)
               /\ ks.given => /\ DOMAIN data = Listed(ks)
                              /\ \A f \in Listed(ks) :
                                     data[f] = IF f \in DOMAIN x THEN x[f] ELSE Undefined
               /\ ~ks.given => /\ DOMAIN data = DOMAIN x
                               /\ \A f \in DOMAIN data : data[f] = x[f]

C8_Witness ==
    /\ gen.op = "toJSON" /\ gen.cls.keys.given
    /\ gen.x.p = [a |-> Num("1"), b |-> Str("s"), d |-> Null]
    /\ gen.env.p["data"].p = [a |-> Num("1"), c |-> Undefined]

\* C9 as claimed: every field of the default-constructed instance that data
\* lacks keeps its default, and every such field that data has (and the
\* allow-list, if any, permits) takes data's value.
C9_PresentFieldsOverwrite ==
    gen.op = "fromJSON"
        => LET cls == gen.cls
               data == gen.data.p
               r == gen.out.ret.p
           IN  /\ ~gen.out.threw
               /\ \A f \in DOMAIN cls.defaults :
                      /\ f \notin DOMAIN data => r[f] = cls.defaults[f]
                      /\ (f \in DOMAIN data /\ (cls.keys.given => f \in Listed(cls.keys)))
                             => r[f] = data[f]

\* C9 amended: as claimed, except that with an allow-list a listed field
\* that data holds with the value undefined keeps its default (with no
\* allow-list it is overwritten with undefined).
C9_DefinedFieldsOverwrite ==
    gen.op = "fromJSON"
        => LET cls == gen.cls
               data == gen.data.p
               r == gen.out.ret.p
           IN  /\ ~gen.out.threw
               /\ gen.out.ret.c = cls.name
               /\ \A f \in DOMAIN cls.defaults :
                      /\ f \in DOMAIN r
                      /\ f \notin DOMAIN data => r[f] = cls.defaults[f]
                      /\ (f \in DOMAIN data /\ ~cls.keys.given) => r[f] = data[f]
                      /\ (f \in DOMAIN data /\ cls.keys.given /\ f \in Listed(cls.keys))
                             => r[f] = IF data[f] = Undefined THEN cls.defaults[f] ELSE data[f]

C9_Witness ==
    /\ gen.op = "fromJSON" /\ ~gen.cls.keys.given
    /\ gen.data.p = [b |-> Num("1")]
    /\ gen.out.ret.p = [a |-> Num("0"), b |-> Num("1")]

\* C10: with an allow-list every field of data outside it is ignored: it is
\* not added to the instance and does not overwrite a default. With no
\* allow-list every field of data, known to the class or not, is on the
\* instance with data's value.
C10_AllowListFilters ==
    gen.op = "fromJSON"
        => LET cls == gen.cls
               data == gen.data.p
               r == gen.out.ret.p
           IN  /\ ~gen.out.threw
               /\ cls.keys.given =>
                      \A f \in (DOMAIN data) \ Listed(cls.keys) :
                          IF f \in DOMAIN cls.defaults
                              THEN f \in DOMAIN r /\ r[f] = cls.defaults[f]
                              ELSE f \notin DOMAIN r
               /\ ~cls.keys.given =>
                      \A f \in DOMAIN data : f \in DOMAIN r /\ r[f] = data[f]

C10_Witness ==
    /\ gen.op = "fromJSON" /\ gen.cls.keys.given
    /\ gen.data.p = [a |-> Num("1"), b |-> Num("1"), d |-> Str("s")]
    /\ gen.out.ret.p = [a |-> Num("1"), b |-> Str("d")]

---------------------------------------------------------------------------
(* Properties of Settings.load *)

\* After the load the nested object `name` still holds, under every key the
\* save omits, the value it held before the load.
OmittedKeysKept(name) ==
    LET before == Get(settingsLoad.before, name)
        saved == Get(settingsLoad.save, name)
        after == Get(Settings, name)
    IN  /\ after.t = "object"
        /\ \A k \in DOMAIN before.p :
               (saved.t # "object" \/ k \notin DOMAIN saved.p)
                   => (k \in DOMAIN after.p /\ after.p[k] = before.p[k])

RemoteApiValid ==
    /\ isValidConnectionHostname(Get(Settings, "RemoteFileApiAddress"))
    /\ \/ Get(Settings, "RemoteFileApiPort") = Num("0")
       \/ isValidConnectionPort(Get(Settings, "RemoteFileApiPort"))

\* C11: Settings.load merges each nested settings object (theme, styles,
\* overview, EditorTheme) of the save into the Settings object of the same
\* name, so that every key the save omits keeps its pre-load value and the
\* top-level assignment replaces none of the four; and after any load
\* RemoteFileApiAddress is a valid hostname and RemoteFileApiPort is 0 or a
\* valid port.
C11_LoadMergesNestedSettings ==
    settingsLoad.phase = "loaded"
        => /\ \A name \in NestedNames : OmittedKeysKept(name)
           /\ RemoteApiValid

\* C11, the parts the code keeps: theme is merged and not replaced, and the
\* remote file API address and port are valid after every load.
C11_ThemeMergedAndRemoteApiValid ==
    /\ settingsLoad.phase = "loaded" => OmittedKeysKept("theme")
    /\ settingsLoad.phase \in {"loaded", "threw"} => RemoteApiValid

====
